---- MODULE Spec2Model ----
(***************************************************************************)
(* A model of the phylotree arena tree (src/src/tree/tree.rs): the node    *)
(* arena with its mutations, its shape and path queries (SpecShape,        *)
(* SpecPaths) and the Newick codec from_newick / to_newick (Spec), of the  *)
(* NodeInTree traversals (src/src/tree/iterators.rs, SpecWalk) and of the  *)
(* tree generators (src/src/tree_generation.rs, SpecGen).                  *)
(*                                                                         *)
(* Strings are sequences of one-character strings.  Option<T> is a         *)
(* sequence of length at most one: None is << >> and Some(v) is << v >>.   *)
(* NodeIds are the 0-based arena positions of the source; the arena        *)
(* `nodes` is a TLA+ sequence, so node id lives at nodes[id + 1].          *)
(* Edge lengths (f64 in the source) are modelled by naturals.              *)
(***************************************************************************)
EXTENDS Integers, Sequences, FiniteSets, TLC

(***************************************************************************)
(* Bounds of the model.                                                    *)
(***************************************************************************)
\* longest input text scanned by from_newick
MaxLen == 5
\* largest arena the public mutations build
MaxNodes == 4
\* largest edge length rescale may produce
MaxEdge == 4
\* largest arena of the trees the shape queries are asked about
MaxShape == 6
\* largest arena the traversals are started on
MaxWalk == 5
\* largest number of leaves asked of a generator
MaxGenLeaves == 4
\* a binary tree of MaxGenLeaves leaves
MaxGenNodes == 2 * MaxGenLeaves - 1
\* the bits of a usize the model keeps
UsizeBits == 16
\* significant bits a floating-point sum keeps (53 in an f64)
FloatBits == 2

(***************************************************************************)
(* Option<T>                                                               *)
(***************************************************************************)
None == << >>
Some(v) == << v >>
is_some(o) == o # << >>
is_none(o) == o = << >>
unwrap(o) == o[1]

Last(s) == s[Len(s)]
Front(s) == SubSeq(s, 1, Len(s) - 1)

(***************************************************************************)
(* Node (src/src/tree/node.rs is not part of the sources at hand; the      *)
(* record and its helpers follow the data model and Node section of the    *)
(* specification).  child_edges is the per-child edge registry: a function *)
(* from the ids of the children added so far to the mirrored edge.         *)
(***************************************************************************)
Node_new ==
    [ id          |-> 0,
      name        |-> None,
      comment     |-> None,
      parent      |-> None,
      parent_edge |-> None,
      children    |-> << >>,
      child_edges |-> << >>,
      depth       |-> 0,
      deleted     |-> FALSE ]

Node_set_id(n, id) == [n EXCEPT !.id = id]

Node_set_name(n, name) == [n EXCEPT !.name = Some(name)]

Node_set_parent(n, parent, edge) ==
    [n EXCEPT !.parent = Some(parent), !.parent_edge = edge]

Node_set_depth(n, depth) == [n EXCEPT !.depth = depth]

Node_set_child_edge(n, child, edge) ==
    [n EXCEPT !.child_edges =
        [c \in (DOMAIN n.child_edges) \cup {child} |->
            IF c = child THEN edge ELSE n.child_edges[c]]]

Node_get_child_edge(n, child) ==
    IF child \in DOMAIN n.child_edges THEN n.child_edges[child] ELSE None

Node_add_child(n, child, edge) ==
    Node_set_child_edge([n EXCEPT !.children = Append(n.children, child)],
                        child, edge)

Node_is_tip(n) == n.children = << >>

Node_delete(n) == [n EXCEPT !.deleted = TRUE]

ScaleEdge(e, factor) == IF is_some(e) THEN Some(unwrap(e) * factor) ELSE None

Node_rescale_edges(n, factor) ==
    [n EXCEPT !.parent_edge = ScaleEdge(n.parent_edge, factor),
              !.child_edges = [c \in DOMAIN n.child_edges |->
                                  ScaleEdge(n.child_edges[c], factor)]]

(***************************************************************************)
(* Tree: construction and lookup.  The operators take the arena `nodes`    *)
(* and return the new arena together with the value the method returns.    *)
(***************************************************************************)
get(t, id) == t[id + 1]

size(t) == Len(t)

\* Tree::add: the node takes the next arena slot as its id.
add(t, node) ==
    LET idx == Len(t)
    IN  [ nodes |-> Append(t, [node EXCEPT !.id = idx]), id |-> idx ]

\* Result<T, E> and the error values of TreeError and ParseError
Ok(v) == << "Ok", v >>
\* Ok(()) and Ok(tree): the tree itself is the arena
OkUnit == << "Ok" >>
Err(e) == << "Err", e >>
NodeNotFound(id) == << "NodeNotFound", id >>
RootNotFound == << "RootNotFound" >>
WhiteSpaceInNumber == << "WhiteSpaceInNumber" >>
UnclosedBracket == << "UnclosedBracket" >>
NoClosingSemicolon == << "NoClosingSemicolon" >>
FloatError == << "FloatError" >>
NoSubtreeParent == << "NoSubtreeParent" >>
IsNotBinary == << "IsNotBinary" >>
IsNotRooted == << "IsNotRooted" >>
IsEmpty == << "IsEmpty" >>
\* a panic (unwrap on None, unreachable!, unimplemented!) aborts the call
Panic == << "Panic" >>
is_ok(r) == r[1] = "Ok"
is_err(r) == r[1] = "Err"

\* add_child that takes the child's depth to be its parent's
add_child_same_depth(t, node, parent, edge) ==
    IF parent >= Len(t)
    THEN [ nodes |-> t, ret |-> Err(NodeNotFound(parent)) ]
    ELSE LET n1  == Node_set_parent(node, parent, edge)
             n2  == Node_set_depth(n1, get(t, parent).depth)
             a   == add(t, n2)
             id  == a.id
             t1  == [a.nodes EXCEPT ![id + 1] = Node_set_id(@, id)]
             t2  == [t1 EXCEPT ![parent + 1] = Node_add_child(@, id, edge)]
         IN  [ nodes |-> t2, ret |-> Ok(id) ]

\* add_child that appends the node before it validates the parent
add_child_late_check(t, node, parent, edge) ==
    LET a == add(t, Node_set_parent(node, parent, edge))
    IN  IF parent >= Len(t)
        THEN [ nodes |-> a.nodes, ret |-> Err(NodeNotFound(parent)) ]
        ELSE LET id == a.id
                 t1 == [a.nodes EXCEPT ![id + 1] =
                           Node_set_depth(@, get(t, parent).depth + 1)]
                 t2 == [t1 EXCEPT ![parent + 1] = Node_add_child(@, id, edge)]
             IN  [ nodes |-> t2, ret |-> Ok(id) ]

\* Tree::add_child
add_child(t, node, parent, edge) ==
    IF parent >= Len(t)
    THEN [ nodes |-> t, ret |-> Err(NodeNotFound(parent)) ]
    ELSE LET n1  == Node_set_parent(node, parent, edge)
             n2  == Node_set_depth(n1, get(t, parent).depth + 1)
             a   == add(t, n2)
             id  == a.id
             t1  == [a.nodes EXCEPT ![id + 1] = Node_set_id(@, id)]
             t2  == [t1 EXCEPT ![parent + 1] = Node_add_child(@, id, edge)]
         IN  [ nodes |-> t2, ret |-> Ok(id) ]

\* Tree::get_root: the first parentless node in arena order.
get_root(t) ==
    LET roots == { i \in 1..Len(t) : is_none(t[i].parent) }
    IN  IF roots = {}
        THEN Err(RootNotFound)
        ELSE Ok(t[CHOOSE i \in roots : \A j \in roots : i <= j].id)

(***************************************************************************)
(* Tree: the shape of the tree and the balance indices.                    *)
(***************************************************************************)
\* the sum of a sequence of numbers (Iterator::sum)
RECURSIVE Sum(_)
Sum(s) == IF s = << >> THEN 0 ELSE Sum(Front(s)) + Last(s)

\* Tree::get_leaves: the ids of the tips, in arena order
get_leaves(t) ==
    LET tips == SelectSeq(t, Node_is_tip)
    IN  [k \in 1..Len(tips) |-> tips[k].id]

\* Tree::n_leaves: the number of tips in the arena
n_leaves(t) == Len(SelectSeq(t, Node_is_tip))

RECURSIVE get_subtree_leaves(_, _)
RECURSIVE leaves_of_children(_, _, _)
\* Tree::get_subtree_leaves
get_subtree_leaves(t, index) ==
    IF Node_is_tip(get(t, index)) THEN << index >>
    ELSE leaves_of_children(t, get(t, index).children, 1)

\* the loop of get_subtree_leaves over the children
leaves_of_children(t, kids, i) ==
    IF i > Len(kids) THEN << >>
    ELSE get_subtree_leaves(t, kids[i]) \o leaves_of_children(t, kids, i + 1)

\* is_binary that lets a parentless node have three children
is_binary_virtual_root(t) ==
    \A i \in 1..Len(t) :
        IF is_none(t[i].parent) THEN Len(t[i].children) <= 3
        ELSE Len(t[i].children) <= 2

\* Tree::is_binary: false at the first node that fails either test
is_binary(t) ==
    \A i \in 1..Len(t) :
        /\ ~ (is_none(t[i].parent) /\ Len(t[i].children) > 3)
        /\ ~ (Len(t[i].children) > 2)

\* is_rooted that takes two or more children of the root for a rooted tree
is_rooted_at_least_two(t) ==
    LET root_id == get_root(t)
    IN  IF is_err(root_id) THEN root_id
        ELSE Ok(t # << >> /\ Len(get(t, root_id[2]).children) >= 2)

\* Tree::is_rooted
is_rooted(t) ==
    LET root_id == get_root(t)
    IN  IF is_err(root_id) THEN root_id
        ELSE Ok(t # << >> /\ Len(get(t, root_id[2]).children) = 2)

\* check_rooted_binary that only tests for a root
check_rooted_only(t) ==
    LET rooted == is_rooted(t)
    IN  IF is_err(rooted) THEN rooted
        ELSE IF ~ rooted[2] THEN Err(IsNotRooted)
        ELSE OkUnit

\* Tree::check_rooted_binary
check_rooted_binary(t) ==
    LET rooted == is_rooted(t)
    IN  IF is_err(rooted) THEN rooted
        ELSE IF ~ rooted[2] THEN Err(IsNotRooted)
        ELSE IF ~ is_binary(t) THEN Err(IsNotBinary)
        ELSE OkUnit

\* Tree::cherries
cherries(t) ==
    LET checked == check_rooted_binary(t)
    IN  IF is_err(checked) THEN checked
        ELSE IF t # << >>
        THEN Ok(Cardinality({ i \in 1..Len(t) :
                    /\ Len(t[i].children) = 2
                    /\ Node_is_tip(get(t, t[i].children[1]))
                    /\ Node_is_tip(get(t, t[i].children[2])) }))
        ELSE Err(IsEmpty)

\* Tree::colless
colless(t) ==
    LET checked == check_rooted_binary(t)
        imbalance(node) ==
            IF node.children = << >> THEN 0
            ELSE LET left  == Len(get_subtree_leaves(t, node.children[1]))
                     right == IF Len(node.children) > 1
                              THEN Len(get_subtree_leaves(t, node.children[2]))
                              ELSE 0
                 IN  IF left >= right THEN left - right ELSE right - left
        inner == SelectSeq(t, LAMBDA node : ~ Node_is_tip(node))
    IN  IF is_err(checked) THEN checked
        ELSE Ok(Sum([k \in 1..Len(inner) |-> imbalance(inner[k])]))

\* Tree::sackin
sackin(t) ==
    LET checked == check_rooted_binary(t)
        tips == get_leaves(t)
    IN  IF is_err(checked) THEN checked
        ELSE Ok(Sum([k \in 1..Len(tips) |-> get(t, tips[k]).depth]))

(***************************************************************************)
(* Tree: paths and distances.  The lengths the model reads and scales are  *)
(* exactly representable, as small integers and their doubles are in an    *)
(* f64; a sum is rounded to the nearest number of FloatBits significant    *)
(* bits, ties to the even one, as an f64 addition rounds to 53 bits.       *)
(***************************************************************************)
RECURSIVE Pow(_, _)
Pow(b, n) == IF n = 0 THEN 1 ELSE b * Pow(b, n - 1)

RECURSIVE BitLen(_)
\* the number of bits of x
BitLen(x) == IF x = 0 THEN 0 ELSE 1 + BitLen(x \div 2)

\* f64 `+`: the exact sum rounded to the precision of the format
float_add(a, b) ==
    LET x   == a + b
        ulp == Pow(2, BitLen(x) - FloatBits)
        q   == x \div ulp
        r   == x % ulp
    IN  IF BitLen(x) <= FloatBits THEN x
        ELSE IF 2 * r < ulp THEN q * ulp
        ELSE IF 2 * r > ulp THEN (q + 1) * ulp
        ELSE IF q % 2 = 0 THEN q * ulp
        ELSE (q + 1) * ulp

RECURSIVE get_path_from_root(_, _)
\* Tree::get_path_from_root: from the parentless ancestor down to the node
get_path_from_root(t, node) ==
    IF is_some(get(t, node).parent)
    THEN Append(get_path_from_root(t, unwrap(get(t, node).parent)), node)
    ELSE << node >>

\* the index at which the two paths part (0-based, as in the source)
divergence(root_to_source, root_to_target) ==
    LET shorter == IF Len(root_to_source) <= Len(root_to_target)
                   THEN Len(root_to_source) ELSE Len(root_to_target)
        differ  == { k \in 1..shorter : root_to_source[k] # root_to_target[k] }
    IN  IF differ # {}
        THEN (CHOOSE k \in differ : \A j \in differ : k <= j) - 1
        ELSE shorter

RECURSIVE add_edges(_, _)
\* the `dist += d` of get_distance over the nodes of `walk`, in order
add_edges(t, walk) ==
    IF walk = << >> THEN 0
    ELSE LET edge == get(t, Last(walk)).parent_edge
             dist == add_edges(t, Front(walk))
         IN  IF is_some(edge) THEN float_add(dist, unwrap(edge)) ELSE dist

\* Tree::get_common_ancestor: Ok(id) stands for the id it returns; with no
\* shared prefix `cursor - 1` underflows and the indexing panics
get_common_ancestor(t, source, target) ==
    IF source = target THEN Ok(source)
    ELSE LET root_to_source == get_path_from_root(t, source)
             root_to_target == get_path_from_root(t, target)
             cursor == divergence(root_to_source, root_to_target)
         IN  IF cursor = 0 THEN Panic ELSE Ok(root_to_source[cursor])

\* get_distance that also walks the edge above the divergence
get_distance_from_above(t, source, target) ==
    IF source = target THEN << None, 0 >>
    ELSE LET root_to_source == get_path_from_root(t, source)
             root_to_target == get_path_from_root(t, target)
             cursor == divergence(root_to_source, root_to_target)
             from == IF cursor > 0 THEN cursor ELSE 1
             walk == SubSeq(root_to_source, from, Len(root_to_source))
                     \o SubSeq(root_to_target, cursor + 1, Len(root_to_target))
         IN  IF \A k \in 1..Len(walk) : is_some(get(t, walk[k]).parent_edge)
             THEN << Some(add_edges(t, walk)), Len(walk) >>
             ELSE << None, Len(walk) >>

\* get_distance that walks down from the divergence on the target's side only
get_distance_one_sided(t, source, target) ==
    IF source = target THEN << None, 0 >>
    ELSE LET root_to_source == get_path_from_root(t, source)
             root_to_target == get_path_from_root(t, target)
             cursor == divergence(root_to_source, root_to_target)
             walk == SubSeq(root_to_target, cursor + 1, Len(root_to_target))
         IN  IF \A k \in 1..Len(walk) : is_some(get(t, walk[k]).parent_edge)
             THEN << Some(add_edges(t, walk)), Len(walk) >>
             ELSE << None, Len(walk) >>

\* Tree::get_distance: (sum of the branch lengths or None, number of edges)
get_distance(t, source, target) ==
    IF source = target THEN << None, 0 >>
    ELSE LET root_to_source == get_path_from_root(t, source)
             root_to_target == get_path_from_root(t, target)
             cursor == divergence(root_to_source, root_to_target)
             walk == SubSeq(root_to_source, cursor + 1, Len(root_to_source))
                     \o SubSeq(root_to_target, cursor + 1, Len(root_to_target))
         IN  IF \A k \in 1..Len(walk) : is_some(get(t, walk[k]).parent_edge)
             THEN << Some(add_edges(t, walk)), Len(walk) >>
             ELSE << None, Len(walk) >>

\* Tree::height: get_root().unwrap() panics on a tree without a root
height(t) ==
    IF is_err(get_root(t)) THEN Panic
    ELSE LET root == get_root(t)[2]
             leaves == get_leaves(t)
             heights == { LET d == get_distance(t, root, leaves[k])
                          IN  IF is_some(d[1]) THEN unwrap(d[1]) ELSE d[2]
                          : k \in 1..Len(leaves) }
         IN  IF heights = {} THEN None
             ELSE Some(CHOOSE h \in heights : \A g \in heights : g <= h)

(***************************************************************************)
(* Traversals.  The eager ones return the whole sequence; the lazy ones     *)
(* are the iterators of a NodeInTree, run here until they are exhausted     *)
(* with the stack or queue of child iterators they keep.  An iterator over  *)
(* children is the sequence of the ids it has not yet handed out.           *)
(***************************************************************************)
RECURSIVE Concat(_)
Concat(ss) == IF ss = << >> THEN << >> ELSE Concat(Front(ss)) \o Last(ss)

RECURSIVE preorder(_, _)
\* Tree::preorder: the node, then the preorder of each child in turn
preorder(t, root) ==
    LET kids == get(t, root).children
    IN  Ok(<< root >> \o Concat([k \in 1..Len(kids) |-> preorder(t, kids[k])[2]]))

RECURSIVE postorder(_, _)
\* Tree::postorder: the postorder of each child in turn, then the node
postorder(t, root) ==
    LET kids == get(t, root).children
    IN  Ok(Concat([k \in 1..Len(kids) |-> postorder(t, kids[k])[2]]) \o << root >>)

RECURSIVE levels(_, _)
\* one level after the other, each level left to right
levels(t, level) ==
    IF level = << >> THEN << >>
    ELSE level \o levels(t, Concat([k \in 1..Len(level) |->
                                       get(t, level[k]).children]))

\* Tree::levelorder
levelorder(t, root) == Ok(levels(t, << root >>))

\* iter_children that hands the children out last to first
iter_children_reversed(t, node) ==
    LET kids == get(t, node).children
    IN  [k \in 1..Len(kids) |-> kids[Len(kids) + 1 - k]]

\* NodeInTree::iter_children: an iterator over get_ref().children
iter_children(t, node) == get(t, node).children

\* OwnedTreeNode::get_value_and_children for NodeInTree
get_value_and_children(t, node) == << node, Some(iter_children(t, node)) >>

RECURSIVE dfs_preorder_next(_, _, _)
\* the next() of the pre-order iterator until it returns None: the top
\* iterator of the stack yields a node, whose value goes out and whose
\* children iterator is pushed; an exhausted iterator is popped
dfs_preorder_next(t, stack, out) ==
    IF stack = << >> THEN out
    ELSE IF Last(stack) = << >> THEN dfs_preorder_next(t, Front(stack), out)
    ELSE LET vc == get_value_and_children(t, Head(Last(stack)))
         IN  dfs_preorder_next(t,
                 Front(stack) \o << Tail(Last(stack)) >> \o << unwrap(vc[2]) >>,
                 out \o << vc[1] >>)

\* NodeInTree::dfs_preorder().collect()
dfs_preorder(t, node) ==
    LET vc == get_value_and_children(t, node)
    IN  dfs_preorder_next(t, << unwrap(vc[2]) >>, << vc[1] >>)

RECURSIVE dfs_postorder_next(_, _, _)
\* the next() of the post-order iterator until it returns None: the stack
\* holds the values whose children are under way, each with its iterator;
\* a value goes out when its iterator is exhausted
dfs_postorder_next(t, stack, out) ==
    IF stack = << >> THEN out
    ELSE LET top == Last(stack)
         IN  IF top[2] = << >>
             THEN dfs_postorder_next(t, Front(stack), out \o << top[1] >>)
             ELSE LET vc == get_value_and_children(t, Head(top[2]))
                  IN  dfs_postorder_next(t,
                          Front(stack) \o << << top[1], Tail(top[2]) >> >>
                                       \o << << vc[1], unwrap(vc[2]) >> >>,
                          out)

\* NodeInTree::dfs_postorder().collect()
dfs_postorder(t, node) ==
    LET vc == get_value_and_children(t, node)
    IN  dfs_postorder_next(t, << << vc[1], unwrap(vc[2]) >> >>, << >>)

RECURSIVE bfs_next(_, _, _)
\* the next() of the breadth-first iterator until it returns None: the
\* front iterator of the queue yields a node, whose value goes out and
\* whose children iterator joins the back of the queue
bfs_next(t, queue, out) ==
    IF queue = << >> THEN out
    ELSE IF Head(queue) = << >> THEN bfs_next(t, Tail(queue), out)
    ELSE LET vc == get_value_and_children(t, Head(Head(queue)))
         IN  bfs_next(t,
                 << Tail(Head(queue)) >> \o Tail(queue) \o << unwrap(vc[2]) >>,
                 out \o << vc[1] >>)

\* NodeInTree::bfs().collect()
bfs(t, node) ==
    LET vc == get_value_and_children(t, node)
    IN  bfs_next(t, << unwrap(vc[2]) >>, << vc[1] >>)

(***************************************************************************)
(* Tree: mutation.                                                         *)
(***************************************************************************)
RemoveVal(s, v) == SelectSeq(s, LAMBDA x : x # v)

\* prune that frees the slot of the pruned node instead of keeping it
prune_compact(t, root) ==
    [ i \in 1..(Len(t) - 1) |-> IF i <= root THEN t[i] ELSE t[i + 1] ]

RECURSIVE prune_children(_, _, _)
\* Tree::prune: the children first, then the node is taken out of its
\* parent's children and marked deleted; its arena slot stays.
prune(t, root) ==
    LET t1 == prune_children(t, get(t, root).children, 1)
        t2 == IF is_some(get(t1, root).parent)
              THEN LET parent == unwrap(get(t1, root).parent)
                   IN  [t1 EXCEPT ![parent + 1].children = RemoveVal(@, root)]
              ELSE t1
    IN  [t2 EXCEPT ![root + 1] = Node_delete(@)]

\* the loop of Tree::prune over a clone of the children list
prune_children(t, kids, i) ==
    IF i > Len(kids) THEN t
    ELSE prune_children(prune(t, kids[i]), kids, i + 1)

\* rescale that starts its loop at the second node of the arena
rescale_skip_first(t, factor) ==
    [i \in 1..Len(t) |->
        IF i = 1 THEN t[i] ELSE Node_rescale_edges(t[i], factor)]

\* Tree::rescale
rescale(t, factor) == [i \in 1..Len(t) |-> Node_rescale_edges(t[i], factor)]

\* Tree::compress: the body of the method is empty
compress(t) == t

(***************************************************************************)
(* Branch lengths as text.  The scanner only ever collects the characters  *)
(* of Alphabet in a length field, so a length parses exactly when all its  *)
(* characters are digits; the value is written back in the shortest        *)
(* decimal form (f64's Display), which drops leading zeros.                *)
(***************************************************************************)
DigitChars == << "0", "1", "2", "3", "4", "5", "6", "7", "8", "9" >>
IsDigit(c) == \E d \in 1..10 : DigitChars[d] = c
DigitVal(c) == (CHOOSE d \in 1..10 : DigitChars[d] = c) - 1

RECURSIVE Dec(_)
Dec(s) == IF s = << >> THEN 0 ELSE 10 * Dec(Front(s)) + DigitVal(Last(s))

\* str::parse::<f64>: Some(value), or None for ParseFloatError
parse_float(s) ==
    IF s # << >> /\ \A i \in 1..Len(s) : IsDigit(s[i])
    THEN Some(Dec(s)) ELSE None

RECURSIVE format_float(_)
\* format!("{}", f64)
format_float(v) ==
    IF v < 10 THEN << DigitChars[v + 1] >>
    ELSE Append(format_float(v \div 10), DigitChars[(v % 10) + 1])

(***************************************************************************)
(* Tree::to_newick                                                         *)
(***************************************************************************)
\* Node::to_newick: the node's own label
Node_to_newick(n) ==
    (IF is_some(n.name) THEN unwrap(n.name) ELSE << >>)
    \o (IF is_some(n.parent_edge)
        THEN << ":" >> \o format_float(unwrap(n.parent_edge)) ELSE << >>)
    \o (IF is_some(n.comment)
        THEN << "[" >> \o unwrap(n.comment) \o << "]" >> ELSE << >>)

RECURSIVE to_newick_impl(_, _)
RECURSIVE join_children(_, _, _)
\* the comma-joined serialisation of kids[i..]
join_children(t, kids, i) ==
    IF i > Len(kids) THEN << >>
    ELSE (IF i > 1 THEN << "," >> ELSE << >>)
         \o to_newick_impl(t, kids[i]) \o join_children(t, kids, i + 1)

to_newick_impl(t, root) ==
    LET n == get(t, root)
    IN  IF n.children = << >>
        THEN Node_to_newick(n)
        ELSE << "(" >> \o join_children(t, n.children, 1) \o << ")" >>
             \o Node_to_newick(n)

to_newick(t) ==
    LET root == get_root(t)
    IN  IF is_err(root) THEN root
        ELSE Ok(to_newick_impl(t, root[2]) \o << ";" >>)

(***************************************************************************)
(* Tree::from_newick: the locals of the scan and one operator per arm of   *)
(* the character loop.  Each arm returns the locals and the tree after the *)
(* character, and `ret`: None while the scan goes on, else Some of what    *)
(* the call returns (or Panic).                                            *)
(***************************************************************************)
Alphabet == { "(", ")", ",", ":", ";", "[", "]", "\"", "A", "0", "1", " " }

is_whitespace(c) == c = " "

InitLocals ==
    [ parsing          |-> "Name",
      current_name     |-> None,
      current_length   |-> None,
      current_comment  |-> None,
      current_index    |-> None,
      parent_stack     |-> << >>,
      open_delimiters  |-> << >>,
      within_quotes    |-> FALSE ]

\* name.push(c), or Some(c.into()) when the accumulator is still None
push_char(acc, c) ==
    IF is_some(acc) THEN Some(Append(unwrap(acc), c)) ELSE Some(<< c >>)

Continue(l, t) == [ locals |-> l, nodes |-> t, ret |-> None ]
Return(l, t, r) == [ locals |-> l, nodes |-> t, ret |-> Some(r) ]

\* "Add character in quotes to name"
in_quoted_name(l, c) == l.within_quotes /\ l.parsing = "Name" /\ c # "\""
\* "Add current character to comment"
in_comment(l, c) == l.parsing = "Comment" /\ c # "]"

scan_quoted(l, t, c) ==
    Continue([l EXCEPT !.current_name = push_char(@, c)], t)

scan_comment(l, t, c) ==
    Continue([l EXCEPT !.current_comment = push_char(@, c)], t)

\* '"'
scan_quote(l, t) ==
    LET l1 == [l EXCEPT !.within_quotes = ~ @]
    IN  Continue(IF l.parsing = "Name"
                 THEN [l1 EXCEPT !.current_name = push_char(@, "\"")]
                 ELSE l1, t)

\* '['
scan_open_comment(l, t) == Continue([l EXCEPT !.parsing = "Comment"], t)

\* ']'
scan_close_comment(l, t) == Continue([l EXCEPT !.parsing = "Name"], t)

\* '('
scan_open(l, t) ==
    LET a == IF l.parent_stack = << >>
             THEN add(t, Node_new)
             ELSE LET r == add_child(t, Node_new, Last(l.parent_stack), None)
                  IN  [ nodes |-> r.nodes, id |-> r.ret[2] ]
    IN  Continue([l EXCEPT !.parent_stack = Append(@, a.id),
                           !.open_delimiters = Append(@, 0)], a.nodes)

\* ':'
scan_colon(l, t) == Continue([l EXCEPT !.parsing = "Length"], t)

\* The part the ',' and ')' arms share: pick (or create) the node the label
\* read so far belongs to and store name, edge and comment on it.
label_node(l, t) ==
    IF is_none(l.current_index) /\ l.parent_stack = << >>
    THEN Return(l, t, Panic)
    ELSE
    LET a  == IF is_some(l.current_index)
              THEN [ nodes |-> t, id |-> unwrap(l.current_index) ]
              ELSE LET r == add_child(t, Node_new, Last(l.parent_stack), None)
                   IN  [ nodes |-> r.nodes, id |-> r.ret[2] ]
        l1 == [l EXCEPT !.current_index = Some(a.id)]
        n1 == IF is_some(l.current_name)
              THEN Node_set_name(get(a.nodes, a.id), unwrap(l.current_name))
              ELSE get(a.nodes, a.id)
        parsed == IF is_some(l.current_length)
                  THEN parse_float(unwrap(l.current_length)) ELSE None
    IN  IF is_some(l.current_length) /\ is_none(parsed)
        THEN Return(l1, [a.nodes EXCEPT ![a.id + 1] = n1], Err(FloatError))
        ELSE
        LET n2 == IF is_some(n1.parent)
                  THEN Node_set_parent(n1, unwrap(n1.parent), parsed)
                  ELSE n1
            n3 == [n2 EXCEPT !.comment = l.current_comment]
        IN  Continue([l1 EXCEPT !.current_name = None,
                                !.current_comment = None,
                                !.current_length = None,
                                !.parsing = "Name"],
                     [a.nodes EXCEPT ![a.id + 1] = n3])

\* ','
scan_comma(l, t) ==
    LET o == label_node(l, t)
    IN  IF is_some(o.ret) THEN o
        ELSE Continue([o.locals EXCEPT !.current_index = None], o.nodes)

\* ')'
scan_close(l, t) ==
    LET l0 == [l EXCEPT !.open_delimiters =
                  IF @ = << >> THEN @ ELSE Front(@)]
        o  == label_node(l0, t)
    IN  IF is_some(o.ret) THEN o
        ELSE IF o.locals.parent_stack # << >>
        THEN Continue([o.locals EXCEPT
                          !.current_index = Some(Last(o.locals.parent_stack)),
                          !.parent_stack = Front(@)], o.nodes)
        ELSE Return(o.locals, o.nodes, Err(NoSubtreeParent))

\* from_newick without its finishing pass
finishing_pass_skipped(t, i) == t

RECURSIVE finishing_pass(_, _)
\* "Finishing pass to make sure that branch lenghts are set in both
\* children and parents", over the node ids i.. in arena order
finishing_pass(t, i) ==
    IF i > Len(t) THEN t
    ELSE LET n == t[i]
         IN  IF is_some(n.parent_edge) /\ is_some(n.parent)
             THEN finishing_pass(
                    [t EXCEPT ![unwrap(n.parent) + 1] =
                        Node_set_child_edge(@, n.id, n.parent_edge)], i + 1)
             ELSE finishing_pass(t, i + 1)

\* the ';' arm without its check of the open delimiters
scan_semicolon_unchecked(l, t) ==
    IF is_none(l.current_index) THEN Return(l, t, Panic)
    ELSE LET id == unwrap(l.current_index)
         IN  Return(l, [t EXCEPT ![id + 1].name = l.current_name,
                                 ![id + 1].comment = l.current_comment], OkUnit)

\* ';'
scan_semicolon(l, t) ==
    IF l.open_delimiters # << >> THEN Return(l, t, Err(UnclosedBracket))
    ELSE IF is_none(l.current_index) THEN Return(l, t, Panic)
    ELSE
    LET id == unwrap(l.current_index)
        t1 == [t EXCEPT ![id + 1].name = l.current_name,
                        ![id + 1].comment = l.current_comment]
        parsed == IF is_some(l.current_length)
                  THEN parse_float(unwrap(l.current_length)) ELSE None
    IN  IF is_some(l.current_length) /\ is_none(parsed)
        THEN Return(l, t1, Err(FloatError))
        ELSE LET t2 == IF is_some(l.current_length)
                       THEN [t1 EXCEPT ![id + 1].parent_edge = parsed]
                       ELSE t1
             IN  Return(l, finishing_pass(t2, 1), OkUnit)

\* any other character: "Parse characters in fields"
scan_other(l, t, c) ==
    CASE l.parsing = "Name" ->
            Continue([l EXCEPT !.current_name = push_char(@, c)], t)
      [] l.parsing = "Length" ->
            IF is_whitespace(c) THEN Return(l, t, Err(WhiteSpaceInNumber))
            ELSE Continue([l EXCEPT !.current_length = push_char(@, c)], t)
      [] l.parsing = "Comment" -> Return(l, t, Panic)


(***************************************************************************)
(* The state machine.  A tree starts as Tree::new().  It is either built   *)
(* by from_newick, one scanned character per step, or by the public        *)
(* mutations; a tree from_newick returned is mutated further.              *)
(*   nodes    Tree::nodes, the arena                                       *)
(*   locals   the locals of a running from_newick                          *)
(*   scanned  the characters of the input text consumed so far             *)
(*   pc       "new": Tree::new();  "scan": inside from_newick;             *)
(*            "parsed": from_newick returned Ok(tree);                     *)
(*            "failed": it returned Err;  "panicked": it panicked;         *)
(*            "api": the last call was add, add_child, prune or rescale;   *)
(*            "compress": the last call was compress;                      *)
(*            the name of a query: the last call was that query            *)
(*   ret      what the last call returned                                  *)
(***************************************************************************)
VARIABLES nodes, locals, scanned, pc, ret

vars == << nodes, locals, scanned, pc, ret >>

Init ==
    /\ nodes = << >>
    /\ locals = InitLocals
    /\ scanned = << >>
    /\ pc = "new"
    /\ ret = None

\* what from_newick leaves when it returns r: its locals are gone, and so
\* is the tree it was building unless r is Ok(tree)
Returned(t, r) ==
    /\ pc' = CASE r = Panic -> "panicked"
              [] is_err(r) -> "failed"
              [] OTHER -> "parsed"
    /\ nodes' = IF is_ok(r) THEN t ELSE << >>
    /\ locals' = InitLocals
    /\ ret' = r

\* one turn of `for c in newick.chars()` whose body evaluates to `o`
ScanStep(c, o) ==
    /\ scanned' = Append(scanned, c)
    /\ IF is_none(o.ret)
       THEN /\ pc' = "scan"
            /\ nodes' = o.nodes
            /\ locals' = o.locals
            /\ ret' = None
       ELSE Returned(o.nodes, unwrap(o.ret))

Scanning == pc \in {"new", "scan"} /\ Len(scanned) < MaxLen

ScanQuoted ==
    \E c \in Alphabet :
        /\ Scanning
        /\ in_quoted_name(locals, c)
        /\ ScanStep(c, scan_quoted(locals, nodes, c))

ScanComment ==
    \E c \in Alphabet :
        /\ Scanning
        /\ ~ in_quoted_name(locals, c)
        /\ in_comment(locals, c)
        /\ ScanStep(c, scan_comment(locals, nodes, c))

\* the `match c` of the loop body is reached
Matching(c) ==
    /\ Scanning
    /\ ~ in_quoted_name(locals, c)
    /\ ~ in_comment(locals, c)

ScanQuote ==
    /\ Matching("\"")
    /\ ScanStep("\"", scan_quote(locals, nodes))

ScanOpenComment ==
    /\ Matching("[")
    /\ ScanStep("[", scan_open_comment(locals, nodes))

ScanCloseComment ==
    /\ Matching("]")
    /\ ScanStep("]", scan_close_comment(locals, nodes))

ScanOpen ==
    /\ Matching("(")
    /\ ScanStep("(", scan_open(locals, nodes))

ScanColon ==
    /\ Matching(":")
    /\ ScanStep(":", scan_colon(locals, nodes))

ScanComma ==
    /\ Matching(",")
    /\ ScanStep(",", scan_comma(locals, nodes))

ScanClose ==
    /\ Matching(")")
    /\ ScanStep(")", scan_close(locals, nodes))

ScanSemicolon ==
    /\ Matching(";")
    /\ ScanStep(";", scan_semicolon(locals, nodes))

ScanOther ==
    \E c \in Alphabet \ { "\"", "[", "]", "(", ":", ",", ")", ";" } :
        /\ Matching(c)
        /\ ScanStep(c, scan_other(locals, nodes, c))

\* a scan that hands out the tree built so far when the text ends
end_of_input_lenient(l, t) == Return(l, t, OkUnit)

\* the text ends before a ';' returned: Err(ParseError::NoClosingSemicolon)
end_of_input(l, t) == Return(l, t, Err(NoClosingSemicolon))

EndOfInput ==
    /\ pc \in {"new", "scan"}
    /\ LET o == end_of_input(locals, nodes)
       IN  Returned(o.nodes, unwrap(o.ret))
    /\ UNCHANGED scanned

(***************************************************************************)
(* The public mutations, on a tree from Tree::new() or from from_newick.   *)
(***************************************************************************)
Queries ==
    { "height", "get_distance", "get_common_ancestor",
      "dfs_preorder", "dfs_postorder", "bfs", "get_leaves", "n_leaves",
      "is_binary", "is_rooted", "cherries", "colless", "sackin" }

\* the caller holds a tree
Mutable == pc \in {"new", "parsed", "api", "compress"} \cup Queries

\* the edge arguments of add_child and the factors of rescale that are tried
EdgeArgs == { None, Some(1) }
Factors == { 2 }

Edges(t) ==
    UNION { {t[i].parent_edge} \cup { t[i].child_edges[c] : c \in DOMAIN t[i].child_edges }
            : i \in 1..Len(t) }

Add ==
    /\ Mutable
    /\ Len(nodes) < MaxNodes
    /\ LET a == add(nodes, Node_new)
       IN  /\ nodes' = a.nodes
           /\ ret' = Ok(a.id)
    /\ pc' = "api"
    /\ scanned' = << >>
    /\ UNCHANGED locals

\* tree.add_child(Node::new(), parent, edge)
AddChildCall(parent, edge) ==
    /\ Mutable
    /\ Len(nodes) < MaxNodes
    /\ LET r == add_child(nodes, Node_new, parent, edge)
       IN  /\ nodes' = r.nodes
           /\ ret' = r.ret
    /\ pc' = "api"
    /\ scanned' = << >>
    /\ UNCHANGED locals

AddChild ==
    \E parent \in 0..Len(nodes), edge \in EdgeArgs :
        AddChildCall(parent, edge)

\* tree.prune(&id)
PruneCall(id) ==
    /\ Mutable
    /\ nodes' = prune(nodes, id)
    /\ ret' = OkUnit
    /\ pc' = "api"
    /\ scanned' = << >>
    /\ UNCHANGED locals

Prune == \E id \in 0..(Len(nodes) - 1) : PruneCall(id)

\* tree.rescale(factor)
RescaleCall(factor) ==
    /\ Mutable
    /\ \A e \in Edges(nodes) : is_some(e) => unwrap(e) * factor <= MaxEdge
    /\ nodes' = rescale(nodes, factor)
    /\ ret' = OkUnit
    /\ pc' = "api"
    /\ scanned' = << >>
    /\ UNCHANGED locals

Rescale == \E factor \in Factors : RescaleCall(factor)

\* a query returns r and leaves the tree alone
Query(name, r) ==
    /\ Mutable
    /\ pc' = name
    /\ ret' = r
    /\ UNCHANGED << nodes, locals, scanned >>

Height == Query("height", height(nodes))

\* tree.get_distance(&source, &target)
GetDistanceCall(source, target) ==
    Query("get_distance", get_distance(nodes, source, target))

GetDistance ==
    \E source \in 0..(Len(nodes) - 1), target \in 0..(Len(nodes) - 1) :
        GetDistanceCall(source, target)

\* tree.get_common_ancestor(&source, &target)
GetCommonAncestorCall(source, target) ==
    Query("get_common_ancestor", get_common_ancestor(nodes, source, target))

GetCommonAncestor ==
    \E source \in 0..(Len(nodes) - 1), target \in 0..(Len(nodes) - 1) :
        GetCommonAncestorCall(source, target)

\* tree.get_leaves()
GetLeaves == Query("get_leaves", get_leaves(nodes))

\* tree.n_leaves()
NLeaves == Query("n_leaves", n_leaves(nodes))

\* tree.compress()
Compress ==
    /\ Mutable
    /\ nodes' = compress(nodes)
    /\ ret' = OkUnit
    /\ pc' = "compress"
    /\ UNCHANGED << locals, scanned >>

Next ==
    \/ ScanQuoted
    \/ ScanComment
    \/ ScanQuote
    \/ ScanOpenComment
    \/ ScanCloseComment
    \/ ScanOpen
    \/ ScanColon
    \/ ScanComma
    \/ ScanClose
    \/ ScanSemicolon
    \/ ScanOther
    \/ EndOfInput
    \/ Add
    \/ AddChild
    \/ Prune
    \/ Rescale

Spec == Init /\ [][Next]_vars

(***************************************************************************)
(* The path queries and compress, on the trees the public mutations build. *)
(***************************************************************************)
NextPaths ==
    \/ Add
    \/ AddChild
    \/ Prune
    \/ Rescale
    \/ Compress
    \/ Height
    \/ GetDistance
    \/ GetCommonAncestor
    \/ GetLeaves
    \/ NLeaves

SpecPaths == Init /\ [][NextPaths]_vars

(***************************************************************************)
(* The shape queries.  They read the parents, children and depths only, so *)
(* the trees they are asked about are built without names and branch       *)
(* lengths, which leaves room for larger arenas: a root with two children  *)
(* one of which has three takes six nodes.                                 *)
(***************************************************************************)
\* tree.add(Node::new())
AddShape ==
    /\ Mutable
    /\ Len(nodes) < MaxShape
    /\ LET a == add(nodes, Node_new)
       IN  /\ nodes' = a.nodes
           /\ ret' = Ok(a.id)
    /\ pc' = "api"
    /\ UNCHANGED << locals, scanned >>

\* tree.add_child(Node::new(), parent, None)
AddChildShape ==
    \E parent \in 0..(Len(nodes) - 1) :
        /\ Mutable
        /\ Len(nodes) < MaxShape
        /\ LET r == add_child(nodes, Node_new, parent, None)
           IN  /\ nodes' = r.nodes
               /\ ret' = r.ret
        /\ pc' = "api"
        /\ UNCHANGED << locals, scanned >>

IsBinary == Query("is_binary", is_binary(nodes))

IsRooted == Query("is_rooted", is_rooted(nodes))

Cherries == Query("cherries", cherries(nodes))

Colless == Query("colless", colless(nodes))

Sackin == Query("sackin", sackin(nodes))

NextShape ==
    \/ AddShape
    \/ AddChildShape
    \/ Prune
    \/ IsBinary
    \/ IsRooted
    \/ Cherries
    \/ Colless
    \/ Sackin

SpecShape == Init /\ [][NextShape]_vars

\* NodeInTree { tree: &tree, node }.dfs_preorder().collect::<Vec<NodeId>>()
DfsPreorder ==
    \E node \in 0..(Len(nodes) - 1) :
        /\ Len(nodes) <= MaxWalk
        /\ Query("dfs_preorder", dfs_preorder(nodes, node))

\* NodeInTree { tree: &tree, node }.dfs_postorder().collect::<Vec<NodeId>>()
DfsPostorder ==
    \E node \in 0..(Len(nodes) - 1) :
        /\ Len(nodes) <= MaxWalk
        /\ Query("dfs_postorder", dfs_postorder(nodes, node))

\* NodeInTree { tree: &tree, node }.bfs().collect::<Vec<NodeId>>()
Bfs ==
    \E node \in 0..(Len(nodes) - 1) :
        /\ Len(nodes) <= MaxWalk
        /\ Query("bfs", bfs(nodes, node))

NextWalk ==
    \/ AddShape
    \/ AddChildShape
    \/ Prune
    \/ DfsPreorder
    \/ DfsPostorder
    \/ Bfs

SpecWalk == Init /\ [][NextWalk]_vars

(***************************************************************************)
(* tree_generation: the three generators, one action for the code before   *)
(* the loop, one per turn of the loop and one for the code after it.  The   *)
(* locals of the running generator are in `locals`; the random draws are    *)
(* choices.  A turn needs room for its two nodes in an arena of MaxGenNodes *)
(* nodes, which every call that asks for up to MaxGenLeaves leaves has.     *)
(* A generator is called on the fresh state or once the last call is over.  *)
(***************************************************************************)
\* the Option<f64> a turn draws for a child: Some(sampler.sample(..)) with
\* brlens, one of two lengths here, else None
Drawn(brlens) == IF brlens THEN { Some(1), Some(2) } ELSE { None }

\* format!("Tip_{i}"): the prefix and the decimal digits of i
Tip(i) ==
    LET RECURSIVE Decimal(_)
        Decimal(k) ==
            LET digit == << "0", "1", "2", "3", "4",
                            "5", "6", "7", "8", "9" >>[(k % 10) + 1]
            IN  IF k < 10 THEN << digit >> ELSE Append(Decimal(k \div 10), digit)
    IN  << "T", "i", "p", "_" >> \o Decimal(i)

RECURSIVE name_tips(_, _, _)
\* for (i, id) in ids.iter().enumerate() { tree.get_mut(id)?.set_name(Tip_i) }
name_tips(t, ids, i) ==
    IF i >= Len(ids) THEN t
    ELSE name_tips([t EXCEPT ![ids[i + 1] + 1] = Node_set_name(@, Tip(i))],
                   ids, i + 1)

\* a generator has returned Ok(tree) and its locals are gone
Generated(t) ==
    /\ nodes' = t
    /\ locals' = InitLocals
    /\ ret' = OkUnit
    /\ pc' = "generated"
    /\ UNCHANGED scanned

\* generate_tree(n_leaves, brlens, _) up to its loop.  `n_leaves - 1` is a
\* usize subtraction: for 0 it panics where overflow is checked (debug
\* builds) and wraps around where it is not (release builds).
GenerateTree ==
    \E n \in 0..MaxGenLeaves, brlens \in BOOLEAN :
        /\ pc \in { "new", "generated", "panicked" }
        /\ UNCHANGED scanned
        /\ \/ /\ n = 0
              /\ nodes' = << >>
              /\ locals' = InitLocals
              /\ ret' = Panic
              /\ pc' = "panicked"
           \/ /\ nodes' = add(<< >>, Node_new).nodes
              /\ locals' = [ n_leaves |-> n,
                             brlens   |-> brlens,
                             next_deq |-> << 0 >>,
                             turns    |-> (n - 1) % Pow(2, UsizeBits) ]
              /\ ret' = None
              /\ pc' = "generate_tree"

\* one turn of `for _ in 0..(n_leaves - 1)`
GenerateTreeTurn ==
    /\ pc = "generate_tree"
    /\ locals.turns > 0
    /\ Len(nodes) + 2 <= MaxGenNodes
    /\ \E front \in BOOLEAN, l1 \in Drawn(locals.brlens), l2 \in Drawn(locals.brlens) :
           LET deq       == locals.next_deq
               parent_id == IF front THEN Head(deq) ELSE Last(deq)
               popped    == IF front THEN Tail(deq) ELSE Front(deq)
               c1        == add_child(nodes, Node_new, parent_id, l1)
               c2        == add_child(c1.nodes, Node_new, parent_id, l2)
           IN  /\ nodes' = c2.nodes
               /\ locals' = [locals EXCEPT
                                !.next_deq = popped \o << c1.ret[2], c2.ret[2] >>,
                                !.turns = @ - 1]
    /\ UNCHANGED << scanned, pc, ret >>

\* the loop is over: the nodes left in the deque are named, Ok(tree)
GenerateTreeReturn ==
    /\ pc = "generate_tree"
    /\ locals.turns = 0
    /\ Generated(name_tips(nodes, locals.next_deq, 0))

\* generate_yule(n_leaves, brlens, _) up to its loop
GenerateYule ==
    \E n \in 0..MaxGenLeaves, brlens \in BOOLEAN :
        /\ pc \in { "new", "generated", "panicked" }
        /\ LET a == add(<< >>, Node_new)
           IN  /\ nodes' = a.nodes
               /\ locals' = [ n_leaves          |-> n,
                              brlens            |-> brlens,
                              parent_candidates |-> << a.id >> ]
        /\ ret' = None
        /\ pc' = "generate_yule"
        /\ UNCHANGED scanned

\* one turn of `while tree.n_leaves() != n_leaves`
GenerateYuleTurn ==
    /\ pc = "generate_yule"
    /\ n_leaves(nodes) # locals.n_leaves
    /\ Len(nodes) + 2 <= MaxGenNodes
    /\ \E k \in 1..Len(locals.parent_candidates),
          edge1 \in Drawn(locals.brlens), edge2 \in Drawn(locals.brlens) :
           LET parent == locals.parent_candidates[k]
               child1 == add_child(nodes, Node_new, parent, edge1)
               child2 == add_child(child1.nodes, Node_new, parent, edge2)
               pushed == locals.parent_candidates
                             \o << child1.ret[2], child2.ret[2] >>
               pos    == CHOOSE i \in 1..Len(pushed) :
                             /\ pushed[i] = parent
                             /\ \A j \in 1..(i - 1) : pushed[j] # parent
               \* swap_remove: the last candidate takes the place of the parent
               removed == [i \in 1..(Len(pushed) - 1) |->
                             IF i = pos THEN Last(pushed) ELSE pushed[i]]
           IN  /\ nodes' = child2.nodes
               /\ locals' = [locals EXCEPT !.parent_candidates = removed]
    /\ UNCHANGED << scanned, pc, ret >>

\* the loop is over: the tips are named in arena order, Ok(tree)
GenerateYuleReturn ==
    /\ pc = "generate_yule"
    /\ n_leaves(nodes) = locals.n_leaves
    /\ Generated(name_tips(nodes, get_leaves(nodes), 0))

\* generate_caterpillar(n_leaves, brlens, _) up to its loop
GenerateCaterpillar ==
    \E n \in 0..MaxGenLeaves, brlens \in BOOLEAN :
        /\ pc \in { "new", "generated", "panicked" }
        /\ nodes' = add(<< >>, Node_new).nodes
        /\ locals' = [ n_leaves |-> n,
                       brlens   |-> brlens,
                       parent   |-> 0,
                       i        |-> 1 ]
        /\ ret' = None
        /\ pc' = "generate_caterpillar"
        /\ UNCHANGED scanned

\* one turn of `for i in 1..n_leaves`
GenerateCaterpillarTurn ==
    /\ pc = "generate_caterpillar"
    /\ locals.i < locals.n_leaves
    /\ Len(nodes) + 2 <= MaxGenNodes
    /\ \E l1 \in Drawn(locals.brlens), l2 \in Drawn(locals.brlens) :
           LET i          == locals.i
               parent_bkp == locals.parent
               named(k)   == Node_set_name(Node_new, Tip(k))
           IN  IF i = locals.n_leaves - 1
               THEN LET t1 == add_child(nodes, named(i), locals.parent, l1)
                        t2 == add_child(t1.nodes, named(i + 1), locals.parent, l2)
                    IN  /\ nodes' = t2.nodes
                        /\ locals' = [locals EXCEPT !.i = @ + 1]
               ELSE LET p  == add_child(nodes, Node_new, locals.parent, l1)
                        t2 == add_child(p.nodes, named(i), parent_bkp, l2)
                    IN  /\ nodes' = t2.nodes
                        /\ locals' = [locals EXCEPT !.i = @ + 1,
                                                    !.parent = p.ret[2]]
    /\ UNCHANGED << scanned, pc, ret >>

\* the loop is over: Ok(tree)
GenerateCaterpillarReturn ==
    /\ pc = "generate_caterpillar"
    /\ locals.i >= locals.n_leaves
    /\ Generated(nodes)

NextGen ==
    \/ GenerateTree
    \/ GenerateTreeTurn
    \/ GenerateTreeReturn
    \/ GenerateYule
    \/ GenerateYuleTurn
    \/ GenerateYuleReturn
    \/ GenerateCaterpillar
    \/ GenerateCaterpillarTurn
    \/ GenerateCaterpillarReturn

SpecGen == Init /\ [][NextGen]_vars


(***************************************************************************)
(* The input text read on its own: which characters the scan takes as      *)
(* structure and how many '(' are open, for a text the scan has not        *)
(* returned on.  Inside a quoted name every character but the quote is     *)
(* name text, inside a comment every character but ']' is comment text;    *)
(* ',' ')' and ']' lead back to the name field, ':' to the length field.   *)
(***************************************************************************)
Structural(st, c) ==
    /\ ~ (st.quoted /\ st.field = "Name" /\ c # "\"")
    /\ ~ (st.field = "Comment" /\ c # "]")

RECURSIVE Lexed(_)
Lexed(s) ==
    IF s = << >> THEN [ field |-> "Name", quoted |-> FALSE, open |-> 0 ]
    ELSE LET st == Lexed(Front(s))
             c  == Last(s)
         IN  IF ~ Structural(st, c) THEN st
             ELSE CASE c = "\"" -> [st EXCEPT !.quoted = ~ @]
                    [] c = "[" -> [st EXCEPT !.field = "Comment"]
                    [] c = ":" -> [st EXCEPT !.field = "Length"]
                    [] c \in { "]", "," } -> [st EXCEPT !.field = "Name"]
                    [] c = "(" -> [st EXCEPT !.open = @ + 1]
                    [] c = ")" -> [st EXCEPT !.field = "Name",
                                             !.open = IF @ > 0 THEN @ - 1 ELSE 0]
                    [] OTHER -> st

\* the text ends with character c, taken as structure
EndsWithStructural(s, c) ==
    /\ s # << >>
    /\ Last(s) = c
    /\ Structural(Lexed(Front(s)), c)

\* from_newick has returned (or panicked) on the text `scanned`
Returned_from_newick == pc \in { "parsed", "failed", "panicked" }

(***************************************************************************)
(* The Newick grammar of the specification, as a recogniser:               *)
(*   tree := subtree ';'     subtree := leaf | internal                    *)
(*   internal := '(' subtree (',' subtree)* ')' label?     leaf := label?  *)
(*   label := name? (':' length)? comment?                                 *)
(* XEnds(s, i) is the set of positions at which an X starting at position  *)
(* i of s may end (the position after its last character).                 *)
(***************************************************************************)
NameChars == { "A", "0", "1" }

AllIn(s, i, j, S) == \A k \in i..(j - 1) : s[k] \in S
NoneIs(s, i, j, c) == \A k \in i..(j - 1) : s[k] # c
Positions(s, i) == i..(Len(s) + 1)

NameEnds(s, i) ==
    { j \in Positions(s, i) :
        \/ AllIn(s, i, j, NameChars)
        \/ /\ j >= i + 2
           /\ s[i] = "\"" /\ s[j - 1] = "\""
           /\ NoneIs(s, i + 1, j - 1, "\"") }

LengthEnds(s, i) ==
    { j \in Positions(s, i) :
        \/ j = i
        \/ j >= i + 2 /\ s[i] = ":" /\ \A k \in (i + 1)..(j - 1) : IsDigit(s[k]) }

CommentEnds(s, i) ==
    { j \in Positions(s, i) :
        \/ j = i
        \/ /\ j >= i + 2
           /\ s[i] = "[" /\ s[j - 1] = "]"
           /\ NoneIs(s, i + 1, j - 1, "]") }

LabelEnds(s, i) ==
    UNION { UNION { CommentEnds(s, k) : k \in LengthEnds(s, j) }
            : j \in NameEnds(s, i) }

RECURSIVE SubtreeEnds(_, _)
RECURSIVE ListEnds(_, _)
SubtreeEnds(s, i) ==
    LabelEnds(s, i)
    \cup (IF i <= Len(s) /\ s[i] = "("
          THEN UNION { LabelEnds(s, k + 1) :
                       k \in { k \in ListEnds(s, i + 1) : k <= Len(s) /\ s[k] = ")" } }
          ELSE {})

\* subtree (',' subtree)*
ListEnds(s, i) ==
    LET e == SubtreeEnds(s, i)
    IN  e \cup UNION { ListEnds(s, j + 1) :
                       j \in { j \in e : j <= Len(s) /\ s[j] = "," } }

Accepted(s) == \E j \in SubtreeEnds(s, 1) : j = Len(s) /\ s[j] = ";"

(***************************************************************************)
(* Claims                                                                  *)
(***************************************************************************)

\* C1: for every text s the grammar accepts, from_newick(s) succeeds and
\* to_newick of the tree it returns is s again.
C1_RoundTrip ==
    (Returned_from_newick /\ Accepted(scanned)) =>
        (pc = "parsed" /\ to_newick(nodes) = << "Ok", scanned >>)

\* C2: from_newick returns Ok(tree) or a ParseError on every input; it
\* never panics.
C2_NeverPanics ==
    Returned_from_newick => (is_ok(ret) \/ is_err(ret))

\* C3: when the terminating ';' is scanned while a '(' is still unmatched,
\* from_newick fails with UnclosedBracket and returns no tree.
C3_UnclosedBracket ==
    ( /\ Returned_from_newick
      /\ EndsWithStructural(scanned, ";")
      /\ Lexed(Front(scanned)).open > 0 )
    => (pc = "failed" /\ ret = Err(UnclosedBracket) /\ nodes = << >>)

\* from_newick has failed on a text such as "(A;"
C3_Witness ==
    /\ pc = "failed"
    /\ ret = Err(UnclosedBracket)
    /\ Len(scanned) >= 3
    /\ EndsWithStructural(scanned, ";")
    /\ Lexed(Front(scanned)).open > 0

\* C4: a scan that reaches the end of the text without meeting the
\* terminating ';' fails with NoClosingSemicolon, and a tree is returned
\* only for a text that ends with the terminating ';'.
C4_NoClosingSemicolon ==
    [][ /\ EndOfInput =>
            (pc' = "failed" /\ ret' = Err(NoClosingSemicolon) /\ nodes' = << >>)
        /\ pc' = "parsed" => EndsWithStructural(scanned', ";") ]_vars

\* the text ended right after the ')' that closes the tree, as "(A)" does,
\* and from_newick failed with NoClosingSemicolon
C4_Witness ==
    /\ pc = "failed"
    /\ ret = Err(NoClosingSemicolon)
    /\ Len(scanned) >= 3
    /\ scanned[1] = "("
    /\ EndsWithStructural(scanned, ")")
    /\ Lexed(scanned).open = 0

\* C5: whenever a ')' is scanned while no subtree is open, from_newick
\* returns NoSubtreeParent.
C5_NoSubtreeParent ==
    ( /\ Returned_from_newick
      /\ EndsWithStructural(scanned, ")")
      /\ Lexed(Front(scanned)).open = 0 )
    => (pc = "failed" /\ ret = Err(NoSubtreeParent))

Parentless(t) == { i \in 1..Len(t) : is_none(t[i].parent) }

\* C6: after every sequence of add, add_child, prune and rescale on
\* Tree::new() the arena is empty or holds exactly one parentless node.
C6_SingleRoot ==
    pc = "api" => (nodes = << >> \/ Cardinality(Parentless(nodes)) = 1)

\* C7: in every tree from_newick returns and after any sequence of
\* add(Node::new()), add_child, prune and rescale, a node with a parent is
\* one deeper than its parent and a parentless node has depth 0.
C7_DepthInvariant ==
    pc \in { "parsed", "api" } =>
        \A i \in 1..Len(nodes) :
            IF is_some(nodes[i].parent)
            THEN nodes[i].depth = get(nodes, unwrap(nodes[i].parent)).depth + 1
            ELSE nodes[i].depth = 0

\* a tree read by from_newick (it holds a named node) that was mutated
\* afterwards and has a node at depth 2
C7_Witness ==
    /\ pc = "api"
    /\ \E i \in 1..Len(nodes) : is_some(nodes[i].name)
    /\ \E i \in 1..Len(nodes) : nodes[i].depth = 2

\* C8: after add_child, rescale and a successful from_newick, the edge a
\* parent mirrors for a child equals the child's parent_edge.
C8_MirroredEdges ==
    pc \in { "parsed", "api" } =>
        \A i \in 1..Len(nodes) :
            is_some(nodes[i].parent) =>
                Node_get_child_edge(get(nodes, unwrap(nodes[i].parent)),
                                    nodes[i].id) = nodes[i].parent_edge

\* from_newick returned a tree in which a child carries a branch length
C8_Witness ==
    /\ pc = "parsed"
    /\ \E i \in 1..Len(nodes) :
           is_some(nodes[i].parent) /\ is_some(nodes[i].parent_edge)

\* C9: the node at arena position i has id i; add and add_child return the
\* previous size as the new id; the public mutations never shrink the
\* arena and leave the id, name and parent of every node where they were.
C9_StableIds ==
    /\ [](\A i \in 1..Len(nodes) : nodes[i].id = i - 1)
    /\ [][ pc' = "api" =>
             /\ Len(nodes') >= Len(nodes)
             /\ \A i \in 1..Len(nodes) :
                    /\ nodes'[i].id = nodes[i].id
                    /\ nodes'[i].name = nodes[i].name
                    /\ nodes'[i].parent = nodes[i].parent
             /\ Len(nodes') > Len(nodes) =>
                    /\ Len(nodes') = Len(nodes) + 1
                    /\ ret' = Ok(Len(nodes))
             /\ Add => Len(nodes') > Len(nodes)
             /\ Prune => Len(nodes') = Len(nodes) ]_vars

\* a node was added after a prune: the tombstone is still in the arena
\* and the new node got the next id
C9_Witness ==
    /\ pc = "api"
    /\ Len(nodes) >= 3
    /\ ret = Ok(Len(nodes) - 1)
    /\ \E i \in 1..(Len(nodes) - 1) : nodes[i].deleted

RECURSIVE Subtree(_, _)
Subtree(t, id) ==
    {id} \cup UNION { Subtree(t, get(t, id).children[k]) :
                      k \in 1..Len(get(t, id).children) }

\* the ids of the nodes to_newick writes
Emitted(t) ==
    IF is_err(get_root(t)) THEN {} ELSE Subtree(t, get_root(t)[2])

\* C11: after prune(id) neither id nor a former descendant of it is in a
\* children list or written by to_newick, and every node outside the pruned
\* subtree keeps its name, parent, depth and edges, and its remaining
\* children in their order.
C11_PruneFrame ==
    [][ \A id \in 0..(Len(nodes) - 1) :
          PruneCall(id) =>
            LET gone == Subtree(nodes, id)
            IN  /\ \A i \in 1..Len(nodes') :
                       \A k \in 1..Len(nodes'[i].children) :
                           nodes'[i].children[k] \notin gone
                /\ Emitted(nodes') \cap gone = {}
                /\ \A i \in 1..Len(nodes) :
                       (i - 1) \notin gone =>
                           /\ nodes'[i].name = nodes[i].name
                           /\ nodes'[i].parent = nodes[i].parent
                           /\ nodes'[i].depth = nodes[i].depth
                           /\ nodes'[i].parent_edge = nodes[i].parent_edge
                           /\ nodes'[i].child_edges = nodes[i].child_edges
                           /\ nodes'[i].children =
                                  SelectSeq(nodes[i].children,
                                            LAMBDA c : c \notin gone) ]_vars

C13_Compressed ==
    pc = "compress" =>
        \A i \in 1..Len(nodes) :
            ~ (is_some(nodes[i].parent) /\ Len(nodes[i].children) = 1)

\* C14: is_binary() is true exactly when every node that has a parent has
\* at most 2 children and every parentless node has at most 3.
C14_IsBinary ==
    pc = "is_binary" =>
        (ret = TRUE <=>
            \A i \in 1..Len(nodes) :
                /\ is_some(nodes[i].parent) => Len(nodes[i].children) <= 2
                /\ is_none(nodes[i].parent) => Len(nodes[i].children) <= 3)

C16_IsRooted ==
    pc = "is_rooted" =>
        IF nodes = << >> THEN ret = Err(RootNotFound)
        ELSE \E r \in Parentless(nodes) :
                 /\ \A j \in Parentless(nodes) : r <= j
                 /\ ret = Ok(Len(nodes[r].children) = 2)

\* is_rooted() said Ok(true) on a tree that has a node with three children
\* below a root with two
C16_Witness ==
    /\ pc = "is_rooted"
    /\ ret = Ok(TRUE)
    /\ Len(nodes[1].children) = 2
    /\ \E i \in 2..Len(nodes) : Len(nodes[i].children) = 3

\* C17: on a tree that has nodes, cherries(), colless() and sackin() return
\* Err(IsNotRooted) when the root does not have exactly two children and
\* Err(IsNotBinary) when it has but some node has more than two; no number
\* is returned in either case.
C17_RootedBinaryGate ==
    (pc \in { "cherries", "colless", "sackin" } /\ nodes # << >>) =>
        LET root == CHOOSE r \in Parentless(nodes) :
                        \A j \in Parentless(nodes) : r <= j
        IN  /\ Len(nodes[root].children) # 2 => ret = Err(IsNotRooted)
            /\ ( /\ Len(nodes[root].children) = 2
                 /\ \E i \in 1..Len(nodes) : Len(nodes[i].children) > 2 )
               => ret = Err(IsNotBinary)

\* colless() failed with IsNotBinary: the root has two children and a node
\* below it has three
C17_Witness ==
    /\ pc = "colless"
    /\ ret = Err(IsNotBinary)
    /\ Len(nodes[1].children) = 2
    /\ \E i \in 2..Len(nodes) : Len(nodes[i].children) = 3

\* C18: on a tree with no nodes colless() and sackin() fail with IsEmpty.
C18_IsEmpty ==
    (pc \in { "colless", "sackin" } /\ nodes = << >>) => ret = Err(IsEmpty)

\* C19: height() is None exactly on a tree that has no root, the empty
\* arena; on every tree that has a root it is Some(value).
C19_HeightNone ==
    pc = "height" =>
        IF nodes = << >> THEN ret = None
        ELSE is_some(ret) /\ unwrap(ret) \in Nat

\* the nodes on the path from the root to x, x included
Ancestors(t, x) ==
    { get_path_from_root(t, x)[k] : k \in 1..Len(get_path_from_root(t, x)) }

\* the nodes whose parent edges make up the path between a and b
Between(t, a, b) ==
    (Ancestors(t, a) \ Ancestors(t, b)) \cup (Ancestors(t, b) \ Ancestors(t, a))

RECURSIVE ExactLength(_, _)
\* the sum of the parent edges of the nodes of S, without rounding
ExactLength(t, S) ==
    IF S = {} THEN 0
    ELSE LET x == CHOOSE x \in S : TRUE
         IN  unwrap(get(t, x).parent_edge) + ExactLength(t, S \ {x})

\* d is the exact sum of n non-negative lengths up to the rounding of the
\* n - 1 additions that can round, each by at most one part in 2^FloatBits:
\* |d - exact| <= ((1 + 2^-FloatBits)^(n-1) - 1) * exact
WithinRounding(d, exact, n) ==
    LET err == IF d >= exact THEN d - exact ELSE exact - d
    IN  err * Pow(Pow(2, FloatBits), n - 1)
            <= (Pow(Pow(2, FloatBits) + 1, n - 1)
                - Pow(Pow(2, FloatBits), n - 1)) * exact

\* C20: for every pair of nodes (a, b), get_distance(a, b) and
\* get_distance(b, a) return the same pair (edge sum or None, edge count).
C20_DistanceSymmetry ==
    pc = "get_distance" =>
        \A a \in 0..(Len(nodes) - 1), b \in 0..(Len(nodes) - 1) :
            ret = get_distance(nodes, a, b) => ret = get_distance(nodes, b, a)

\* C20 as amended: get_distance(a, b) and get_distance(b, a) return the
\* same edge count and both a sum or both None; the two sums are the same
\* lengths added in a different order, each the exact length of the path
\* up to the rounding of its additions.
C20_DistanceSymmetryRounded ==
    pc = "get_distance" =>
        \A a \in 0..(Len(nodes) - 1), b \in 0..(Len(nodes) - 1) :
            ret = get_distance(nodes, a, b) =>
                LET back  == get_distance(nodes, b, a)
                    exact == ExactLength(nodes, Between(nodes, a, b))
                IN  /\ ret[2] = back[2]
                    /\ is_some(ret[1]) <=> is_some(back[1])
                    /\ is_some(ret[1]) =>
                           /\ WithinRounding(unwrap(ret[1]), exact, ret[2])
                           /\ WithinRounding(unwrap(back[1]), exact, back[2])

\* get_distance returned the sum of three branch lengths that are not all
\* the same
C20_Witness ==
    /\ pc = "get_distance"
    /\ ret[2] = 3
    /\ is_some(ret[1])
    /\ \E i \in 1..Len(nodes), j \in 1..Len(nodes) :
           /\ is_some(nodes[i].parent_edge) /\ is_some(nodes[j].parent_edge)
           /\ nodes[i].parent_edge # nodes[j].parent_edge

\* the nodes that lie on both the root-to-a and the root-to-b path
Common(t, a, b) == Ancestors(t, a) \cap Ancestors(t, b)

\* the deepest of them
LCA(t, a, b) ==
    CHOOSE c \in Common(t, a, b) :
        \A d \in Common(t, a, b) : get(t, d).depth <= get(t, c).depth

C22_CommonAncestor ==
    pc = "get_common_ancestor" =>
        \A a \in 0..(Len(nodes) - 1), b \in 0..(Len(nodes) - 1) :
            ret = get_common_ancestor(nodes, a, b) =>
                /\ is_ok(ret)
                /\ ret[2] \in Common(nodes, a, b)
                /\ ret[2] = LCA(nodes, a, b)
                /\ a = b => ret[2] = a
                /\ a \in Ancestors(nodes, b) => ret[2] = a
                /\ b \in Ancestors(nodes, a) => ret[2] = b
                /\ ret = get_common_ancestor(nodes, b, a)

\* the childless nodes reached from the root through the children lists
LogicalLeaves(t) == { x \in Emitted(t) : Node_is_tip(get(t, x)) }

RECURSIVE RootPath(_, _)
\* the root-to-x distance as << sum of the lengths added from the root down,
\* whether every edge of the path has a length, number of edges >>; the
\* parent edge of the root itself is not part of it
RootPath(t, x) ==
    IF is_none(get(t, x).parent) THEN << 0, TRUE, 0 >>
    ELSE LET up   == RootPath(t, unwrap(get(t, x).parent))
             edge == get(t, x).parent_edge
         IN  << IF is_some(edge) THEN float_add(up[1], unwrap(edge)) ELSE up[1],
                up[2] /\ is_some(edge),
                up[3] + 1 >>

RootDistance(t, x) ==
    LET d == RootPath(t, x) IN IF d[2] THEN d[1] ELSE d[3]

\* C24: on every tree that has a root, height() is the maximum over the
\* leaves of the tree of the root-to-leaf distance: the sum of the branch
\* lengths of the path when all of them are defined, the number of edges
\* otherwise.
C24_HeightIsMax ==
    (pc = "height" /\ is_ok(get_root(nodes))) =>
        /\ is_some(ret)
        /\ \E l \in LogicalLeaves(nodes) : unwrap(ret) = RootDistance(nodes, l)
        /\ \A l \in LogicalLeaves(nodes) : unwrap(ret) >= RootDistance(nodes, l)

RECURSIVE SumOver(_, _)
\* the sum of f[x] over the x of S
SumOver(f, S) ==
    IF S = {} THEN 0
    ELSE LET x == CHOOSE x \in S : TRUE
         IN  f[x] + SumOver(f, S \ {x})

\* the leaves of the tree that descend from x
LeavesBelow(t, x) == { l \in Subtree(t, x) : Node_is_tip(get(t, l)) }

\* the nodes of the tree that have children
Internal(t) == Emitted(t) \ LogicalLeaves(t)

\* C25: on every rooted binary tree sackin() is the sum over the leaves of
\* the tree of their depth, which is the sum over the internal nodes of the
\* number of leaves that descend from them.
C25_Sackin ==
    (pc = "sackin" /\ is_ok(ret)) =>
        /\ ret[2] = SumOver([l \in LogicalLeaves(nodes) |-> get(nodes, l).depth],
                            LogicalLeaves(nodes))
        /\ ret[2] = SumOver([x \in Internal(nodes) |->
                                Cardinality(LeavesBelow(nodes, x))],
                            Internal(nodes))

\* the number of leaves below the k-th child of x, 0 when there is none
ChildLeaves(t, x, k) ==
    IF Len(get(t, x).children) >= k
    THEN Cardinality(LeavesBelow(t, get(t, x).children[k]))
    ELSE 0

AbsDiff(m, n) == IF m >= n THEN m - n ELSE n - m

\* C26: on every rooted binary tree colless() is the sum over the internal
\* nodes of the tree of |leaves below the first child - leaves below the
\* second child|, a missing second child counting 0 leaves.
C26_Colless ==
    (pc = "colless" /\ is_ok(ret)) =>
        ret[2] = SumOver([x \in Internal(nodes) |->
                             AbsDiff(ChildLeaves(nodes, x, 1),
                                     ChildLeaves(nodes, x, 2))],
                         Internal(nodes))

\* the place of x in the sequence s
Position(s, x) == CHOOSE i \in 1..Len(s) : s[i] = x

\* s holds every node of the subtree of start exactly once and the
\* children of each node in their insertion order
VisitsSubtree(t, s, start) ==
    /\ { s[i] : i \in 1..Len(s) } = Subtree(t, start)
    /\ Len(s) = Cardinality(Subtree(t, start))
    /\ \A x \in Subtree(t, start) :
           \A i \in 1..Len(get(t, x).children), j \in 1..Len(get(t, x).children) :
               i < j => Position(s, get(t, x).children[i])
                            < Position(s, get(t, x).children[j])

\* C27: from any start node the lazy dfs_preorder, dfs_postorder and bfs of
\* a NodeInTree yield the sequences of the eager preorder, postorder and
\* levelorder, and each sequence holds every node of the subtree of the
\* start node exactly once, the children of a node in insertion order.
C27_LazyIsEager ==
    \A start \in 0..(Len(nodes) - 1) :
        /\ (pc = "dfs_preorder" /\ ret = dfs_preorder(nodes, start)) =>
               (Ok(ret) = preorder(nodes, start) /\ VisitsSubtree(nodes, ret, start))
        /\ (pc = "dfs_postorder" /\ ret = dfs_postorder(nodes, start)) =>
               (Ok(ret) = postorder(nodes, start) /\ VisitsSubtree(nodes, ret, start))
        /\ (pc = "bfs" /\ ret = bfs(nodes, start)) =>
               (Ok(ret) = levelorder(nodes, start) /\ VisitsSubtree(nodes, ret, start))

\* a breadth-first walk over four nodes or more that differs from the
\* pre-order one and starts at a node with two children
C27_Witness ==
    /\ pc = "bfs"
    /\ Len(ret) >= 4
    /\ ret # dfs_preorder(nodes, ret[1])
    /\ Len(get(nodes, ret[1]).children) >= 2

\* the places of the ')' of s that are taken as structure
Closings(s) ==
    { k \in 1..Len(s) : EndsWithStructural(SubSeq(s, 1, k), ")") }

\* the text between the last ')' and the terminating ';'
RootLabel(s) ==
    LET k == CHOOSE k \in Closings(s) : \A j \in Closings(s) : j <= k
    IN  SubSeq(s, k + 1, Len(s) - 1)

\* C28: a tree returned by from_newick has exactly one parentless node,
\* every other node is reached from it through the children lists, and the
\* label written between the last ')' and the ';' is stored on it (here: a
\* plain name is its name, no name leaves it unnamed).
C28_ParsedRoot ==
    pc = "parsed" =>
        /\ Cardinality(Parentless(nodes)) = 1
        /\ Emitted(nodes) = 0..(Len(nodes) - 1)
        /\ (Closings(scanned) # {}
            /\ \A k \in 1..Len(RootLabel(scanned)) :
                   RootLabel(scanned)[k] \in { "A", "0", "1" })
           => get(nodes, get_root(nodes)[2]).name
                  = IF RootLabel(scanned) = << >> THEN None
                    ELSE Some(RootLabel(scanned))

\* the childless nodes that are still part of the tree under the root
RemainingLeaves(t) == { x \in LogicalLeaves(t) : ~ get(t, x).deleted }

\* C29: once nodes have been pruned, get_leaves() returns no pruned node
\* and n_leaves() is the number of childless nodes still reached from the
\* root.
C29_LeavesAfterPrune ==
    (\E i \in 1..Len(nodes) : nodes[i].deleted) =>
        /\ pc = "get_leaves" =>
               \A k \in 1..Len(ret) : ~ get(nodes, ret[k]).deleted
        /\ pc = "n_leaves" => ret = Cardinality(RemainingLeaves(nodes))

\* C30: for every n_leaves, 0 and 1 included, generate_tree, generate_yule
\* and generate_caterpillar do not panic, and the tree they return has
\* exactly n_leaves leaves and two children under every internal node.
C30_Generators ==
    [][ /\ pc' # "panicked"
        /\ (GenerateTreeReturn \/ GenerateYuleReturn \/ GenerateCaterpillarReturn)
           => /\ n_leaves(nodes') = locals.n_leaves
              /\ \A i \in 1..Len(nodes') :
                     ~ Node_is_tip(nodes'[i]) => Len(nodes'[i].children) = 2 ]_vars


====
